---- MODULE Spec2Model ----
(***************************************************************************)
(* Model of sms-backup-and-restore-parser: the streaming XML decoder       *)
(* (smsbackuprestore/xml.go), the flat-file sinks (sms.go and friends) and *)
(* the command-line drivers that feed a batch of backup files through a    *)
(* decoder into a sink.                                                    *)
(***************************************************************************)
EXTENDS Integers, Sequences, FiniteSets, TLC

\* ------------------------------------------------------------------ bounds
\* Largest number of child elements of a document of the library harness.
MaxChildren == 3

\* How much input a run of a driver reads: one unit per file and one per
\* child of a file's root.
MaxWork == 5

\* The output files in bytes, scaled down: the length of a line and the size
\* of the buffer of a bufio.Writer. A line fits in the buffer, two do not.
LineLen == 2
BufSize == 3

\* The records the contact resolver is given: how many SMS, how many MMS,
\* and how many parts an MMS has at most.
MaxSMS == 2
MaxMMS == 1
MaxParts == 2

\* How many MMS the aggregate MMS output is given.
MaxRows == 2

\* ------------------------------------------------------------ input streams
\* An input stream is a sequence of XML tokens as encoding/xml reports them.
\* A document is described as a tree (root name, children, whether the root is
\* closed) and serialised to the token stream the decoder reads.

StartTok(name, id) == [t |-> "start", name |-> name, id |-> id]
EndTok(name) == [t |-> "end", name |-> name, id |-> 0]
TextTok == [t |-> "text", name |-> "", id |-> 0]
BadTok == [t |-> "bad", name |-> "", id |-> 0]
NoTok == [t |-> "none", name |-> "", id |-> 0]

\* The kinds of child a document of the model may hold.
\*   sms, call  an element without children
\*   mms        an element with one nested part element
\*   other      an element of an unknown name with an sms nested in it
\*   bad        a syntax error between two children
\*   badsms     an sms element whose subtree holds a syntax error
\*   close      the end tag of the root, written early: what follows is
\*              outside the root
ChildKinds == {"sms", "mms", "call", "other", "bad", "badsms", "close"}
RootNames == {"smses", "calls"}

\* The tokens of the i-th child, each followed by the white space that
\* separates it from the next one.
ChildTokens(root, kind, i) ==
  CASE kind = "sms" -> <<StartTok("sms", i), EndTok("sms"), TextTok>>
    [] kind = "call" -> <<StartTok("call", i), EndTok("call"), TextTok>>
    [] kind = "mms" ->
         <<StartTok("mms", i), StartTok("part", i), EndTok("part"), EndTok("mms"), TextTok>>
    [] kind = "other" ->
         <<StartTok("other", i), StartTok("sms", i), EndTok("sms"), EndTok("other"), TextTok>>
    [] kind = "bad" -> <<BadTok>>
    [] kind = "badsms" -> <<StartTok("sms", i), BadTok>>
    [] kind = "close" -> <<EndTok(root), TextTok>>

RECURSIVE ChildrenTokens(_, _, _)
ChildrenTokens(root, children, i) ==
  IF i > Len(children) THEN <<>>
  ELSE ChildTokens(root, children[i], i) \o ChildrenTokens(root, children, i + 1)

\* The token stream of a document: prolog, root start tag, children, and the
\* root's end tag unless the document is truncated.
Serialize(doc) ==
  IF doc.root = "none" THEN <<TextTok>>
  ELSE <<TextTok, StartTok(doc.root, 0), TextTok>>
       \o ChildrenTokens(doc.root, doc.children, 1)
       \o (IF doc.closed THEN <<EndTok(doc.root)>> ELSE <<>>)

SeqsUpTo(S, n) == UNION {[1..k -> S] : k \in 0..n}

Docs(n) ==
  {[root |-> r, children |-> c, closed |-> cl] :
      r \in RootNames, c \in SeqsUpTo(ChildKinds, n), cl \in BOOLEAN}
  \cup {[root |-> "none", children |-> <<>>, closed |-> TRUE]}

\* A document is well formed when its root is closed once, at the end, and
\* nothing in it is a syntax error.
WellFormed(doc) ==
  /\ doc.root # "none"
  /\ doc.closed
  /\ \A i \in 1..Len(doc.children) : doc.children[i] \notin {"bad", "badsms", "close"}

\* ------------------------------------------------------- encoding/xml calls
\* The scanner: how many tokens were consumed and the stack of open elements.
NewDecoder == [pos |-> 0, stk |-> <<>>]

\* Decoder.Token: the next token, or io.EOF at the end of a stream with no
\* open element, or a syntax error (a malformed token, an end tag that closes
\* nothing or the wrong element, the end of the stream inside an element).
Token(ts, d) ==
  IF d.pos >= Len(ts)
  THEN [d |-> d, tok |-> NoTok, err |-> IF d.stk = <<>> THEN "EOF" ELSE "syntax"]
  ELSE LET t == ts[d.pos + 1]
           adv == [d EXCEPT !.pos = d.pos + 1]
       IN CASE t.t = "bad" -> [d |-> d, tok |-> NoTok, err |-> "syntax"]
            [] t.t = "start" ->
                 [d |-> [adv EXCEPT !.stk = Append(d.stk, t.name)], tok |-> t, err |-> "nil"]
            [] t.t = "end" ->
                 IF d.stk # <<>> /\ d.stk[Len(d.stk)] = t.name
                 THEN [d |-> [adv EXCEPT !.stk = SubSeq(d.stk, 1, Len(d.stk) - 1)],
                       tok |-> t, err |-> "nil"]
                 ELSE [d |-> d, tok |-> NoTok, err |-> "syntax"]
            [] OTHER -> [d |-> adv, tok |-> t, err |-> "nil"]

\* Decoder.Skip: reads tokens up to the end tag of the element whose start tag
\* was consumed last, nested elements included. SkipOn continues the loop on
\* the result r of the Token call just made.
RECURSIVE SkipOn(_, _, _)
SkipOn(ts, depth, r) ==
  IF r.err # "nil" THEN [d |-> r.d, err |-> r.err]
  ELSE IF r.tok.t = "start" THEN SkipOn(ts, depth + 1, Token(ts, r.d))
  ELSE IF r.tok.t = "end" /\ depth = 0 THEN [d |-> r.d, err |-> "nil"]
  ELSE SkipOn(ts, IF r.tok.t = "end" THEN depth - 1 ELSE depth, Token(ts, r.d))

Skip(ts, d) == SkipOn(ts, 0, Token(ts, d))

\* Decoder.DecodeElement: unmarshals the element whose start tag is `start`
\* from its whole subtree. The record keeps the element's kind, its identity
\* and the number of nested part elements.
NoRec == [kind |-> "none", id |-> 0, parts |-> 0]

RECURSIVE DecodeOn(_, _, _, _, _)
DecodeOn(ts, start, depth, parts, r) ==
  IF r.err # "nil" THEN [d |-> r.d, err |-> r.err, rec |-> NoRec]
  ELSE IF r.tok.t = "start"
  THEN DecodeOn(ts, start, depth + 1,
                IF r.tok.name = "part" THEN parts + 1 ELSE parts, Token(ts, r.d))
  ELSE IF r.tok.t = "end" /\ depth = 0
  THEN [d |-> r.d, err |-> "nil",
        rec |-> [kind |-> start.name, id |-> start.id, parts |-> parts]]
  ELSE DecodeOn(ts, start, IF r.tok.t = "end" THEN depth - 1 ELSE depth, parts,
                Token(ts, r.d))

DecodeElement(ts, d, start) == DecodeOn(ts, start, 0, 0, Token(ts, d))

\* ------------------------------------------------------------------ xml.go
\* findElem: the next start element whose name is in `names`; start elements
\* of other names are skipped with their subtree, other tokens are ignored.
\* findElemOn continues the loop on the result r of the Token call just made,
\* findElemSkipped on the result s of the Skip call just made.
\* Mutant of findElemOn: a start element of another name is not skipped, so
\* that the scan descends into it.
RECURSIVE findElemOn_NoSkip(_, _, _)
findElemOn_NoSkip(ts, names, r) ==
  IF r.err # "nil" THEN [d |-> r.d, se |-> NoTok, err |-> r.err]
  ELSE IF r.tok.t = "start" /\ r.tok.name \in names
  THEN [d |-> r.d, se |-> r.tok, err |-> "nil"]
  ELSE findElemOn_NoSkip(ts, names, Token(ts, r.d))

\* Mutant of findElemOn: the first start element met is returned, whatever
\* its name.
RECURSIVE findElemOn_AnyStart(_, _, _)
findElemOn_AnyStart(ts, names, r) ==
  IF r.err # "nil" THEN [d |-> r.d, se |-> NoTok, err |-> r.err]
  ELSE IF r.tok.t = "start" THEN [d |-> r.d, se |-> r.tok, err |-> "nil"]
  ELSE findElemOn_AnyStart(ts, names, Token(ts, r.d))

RECURSIVE findElemOn(_, _, _)
RECURSIVE findElemSkipped(_, _, _)
findElemOn(ts, names, r) ==
  IF r.err # "nil" THEN [d |-> r.d, se |-> NoTok, err |-> r.err]
  ELSE IF r.tok.t = "start" /\ r.tok.name \in names
  THEN [d |-> r.d, se |-> r.tok, err |-> "nil"]
  ELSE IF r.tok.t = "start" THEN findElemSkipped(ts, names, Skip(ts, r.d))
  ELSE findElemOn(ts, names, Token(ts, r.d))

findElemSkipped(ts, names, s) ==
  IF s.err # "nil" THEN [d |-> s.d, se |-> NoTok, err |-> s.err]
  ELSE findElemOn(ts, names, Token(ts, s.d))

findElem(ts, d, names) == findElemOn(ts, names, Token(ts, d))

\* Error values: nil, io.EOF, a syntax error of the XML decoder (wrapped or
\* not), the error a handler returned for record `id`, and the errors of the
\* constructors that found no root element.
Nil == [e |-> "nil", id |-> 0]
SyntaxErr == [e |-> "syntax", id |-> 0]
NoSmsesErr == [e |-> "no smses", id |-> 0]
NoCallsErr == [e |-> "no calls", id |-> 0]
HandlerErr(id) == [e |-> "handler", id |-> id]
Panic == [e |-> "panic", id |-> 0]
NotReturned == [e |-> "none", id |-> 0]

\* A decoder object: its kind and which of its handlers are set (non-nil).
NoDec == [kind |-> "none", OnSMS |-> FALSE, OnMMS |-> FALSE, OnCall |-> FALSE]
MessageDecoder == [kind |-> "msg", OnSMS |-> FALSE, OnMMS |-> FALSE, OnCall |-> FALSE]
CallDecoder == [kind |-> "call", OnSMS |-> FALSE, OnMMS |-> FALSE, OnCall |-> FALSE]

\* Mutant of NewDecoderOn: the error of the scan for the root is dropped.
NewDecoderOn_IgnoreErr(r, made) == [d |-> r.d, dec |-> made, err |-> Nil]

\* NewMessageDecoder / NewCallDecoder: scan for the root element; an error
\* of the scan, io.EOF included, is returned and no decoder is.
NewDecoderOn(r, made) ==
  IF r.err # "nil"
  THEN [d |-> r.d, dec |-> NoDec,
        err |-> IF made.kind = "msg" THEN NoSmsesErr ELSE NoCallsErr]
  ELSE [d |-> r.d, dec |-> made, err |-> Nil]

NewMessageDecoder(ts) == NewDecoderOn(findElem(ts, NewDecoder, {"smses"}), MessageDecoder)

NewCallDecoder(ts) == NewDecoderOn(findElem(ts, NewDecoder, {"calls"}), CallDecoder)

\* Mutant of DecodeMustPanic: Decode does not check its handlers.
DecodeMustPanic_Never(dc) == FALSE

\* The check at the head of Decode: a decoder without any handler panics.
DecodeMustPanic(dc) ==
  IF dc.kind = "msg" THEN ~dc.OnSMS /\ ~dc.OnMMS ELSE ~dc.OnCall

\* One iteration of Decode up to the call of the handler. The outcome is
\*   return   Decode returns err (nil at io.EOF)
\*   handler  rec was decoded and is handed to its handler
\*   loop     the element was skipped, the loop goes on
\*   panic    the unexpected-element branch
\* The element was skipped (no handler is set for its kind): s is Skip's result.
DecodeSkipped(s) ==
  IF s.err # "nil"
  THEN [d |-> s.d, out |-> "return", rec |-> NoRec, err |-> SyntaxErr]
  ELSE [d |-> s.d, out |-> "loop", rec |-> NoRec, err |-> Nil]

\* Mutant of DecodeDecoded: the token after the element is read before the
\* record is handed to its handler.
DecodeDecoded_ReadAhead(e) ==
  IF e.err # "nil"
  THEN [d |-> e.d, out |-> "return", rec |-> NoRec, err |-> SyntaxErr]
  ELSE [d |-> [e.d EXCEPT !.pos = @ + 1], out |-> "handler", rec |-> e.rec, err |-> Nil]

\* The element was decoded: e is DecodeElement's result.
DecodeDecoded(e) ==
  IF e.err # "nil"
  THEN [d |-> e.d, out |-> "return", rec |-> NoRec, err |-> SyntaxErr]
  ELSE [d |-> e.d, out |-> "handler", rec |-> e.rec, err |-> Nil]

\* Mutants of DecodeNoChild: io.EOF is returned like any other error; every
\* error ends Decode with nil.
EOFErr == [e |-> "EOF", id |-> 0]

DecodeNoChild_EOFIsError(r) ==
  [d |-> r.d, out |-> "return", rec |-> NoRec,
   err |-> IF r.err = "EOF" THEN EOFErr ELSE SyntaxErr]

DecodeNoChild_AllNil(r) == [d |-> r.d, out |-> "return", rec |-> NoRec, err |-> Nil]

\* findElem failed: io.EOF ends Decode with nil, any other error is returned.
DecodeNoChild(r) ==
  [d |-> r.d, out |-> "return", rec |-> NoRec,
   err |-> IF r.err = "EOF" THEN Nil ELSE SyntaxErr]

\* Mutant of MessageDecodeChild: the handlers are called without the nil
\* check, and calling a nil handler panics.
MessageDecodeChild_NilCall(ts, dc, r) ==
  IF r.err # "nil" THEN DecodeNoChild(r)
  ELSE IF (r.se.name = "sms" /\ dc.OnSMS) \/ (r.se.name = "mms" /\ dc.OnMMS)
  THEN DecodeDecoded(DecodeElement(ts, r.d, r.se))
  ELSE [d |-> r.d, out |-> "panic", rec |-> NoRec, err |-> Panic]

\* MessageDecoder.Decode on the result r of findElem(d.decoder, "sms", "mms").
MessageDecodeChild(ts, dc, r) ==
  IF r.err # "nil" THEN DecodeNoChild(r)
  ELSE IF r.se.name = "sms"
  THEN IF ~dc.OnSMS THEN DecodeSkipped(Skip(ts, r.d))
       ELSE DecodeDecoded(DecodeElement(ts, r.d, r.se))
  ELSE IF r.se.name = "mms"
  THEN IF ~dc.OnMMS THEN DecodeSkipped(Skip(ts, r.d))
       ELSE DecodeDecoded(DecodeElement(ts, r.d, r.se))
  ELSE [d |-> r.d, out |-> "panic", rec |-> NoRec, err |-> Panic]

MessageDecodeIter(ts, d, dc) ==
  MessageDecodeChild(ts, dc, findElem(ts, d, {"sms", "mms"}))

\* CallDecoder.Decode on the result r of findElem(d.decoder, "call").
CallDecodeChild(ts, dc, r) ==
  IF r.err # "nil" THEN DecodeNoChild(r)
  ELSE DecodeDecoded(DecodeElement(ts, r.d, r.se))

CallDecodeIter(ts, d, dc) == CallDecodeChild(ts, dc, findElem(ts, d, {"call"}))

DecodeIter(ts, d, dc) ==
  IF dc.kind = "msg" THEN MessageDecodeIter(ts, d, dc) ELSE CallDecodeIter(ts, d, dc)

\* Mutant of DecodeAfterHandler: the handler's error is dropped.
DecodeAfterHandler_Ignore(herr) == [out |-> "loop", err |-> Nil]

\* What Decode does with the error its handler returned: a non-nil error is
\* returned at once, nil lets the loop go on.
DecodeAfterHandler(herr) ==
  IF herr # Nil THEN [out |-> "return", err |-> herr] ELSE [out |-> "loop", err |-> Nil]

\* The name of the handler a record is handed to.
HandlerOf(kind) ==
  CASE kind = "sms" -> "OnSMS" [] kind = "mms" -> "OnMMS" [] OTHER -> "OnCall"

\* -------------------------------------------------------------------- state
VARIABLES
  file,    \* the file being processed: [name, doc], name the file name's prefix
  fi,      \* its index in the batch
  work,    \* how much input the batch may still hold (see MaxWork)
  log,     \* what main reported per failed file: [file, err]
  pc,      \* the control location of the caller
  d,       \* the XML scanner of the current file
  dec,     \* the decoder of the current file and its handlers
  cur,     \* the record decoded and handed to its handler
  trace,   \* the handler invocations so far: [h, id, file]
  hret,    \* what the last handler invocation returned
  ret,     \* what the constructor or Decode returned for the current file
  sink,    \* the output sink of the run
  m,       \* the Messages the contact resolver ranges over, as far as it got
  canonicalMap  \* the resolver's map from canonical number to Contact

vars == <<file, fi, work, log, pc, d, dec, cur, trace, hret, ret, sink, m, canonicalMap>>

\* The state of the contact resolver, which the decoders and drivers leave
\* alone.
gVars == <<m, canonicalMap>>

\* Messages without records, and the map without contacts.
NoMessages == [SMS |-> <<>>, MMS |-> <<>>]
NoMap == <<>>

\* The batch as the driver sees it.
batchVars == <<file, fi, work, log>>

Tokens == Serialize(file.doc)
Doc == file.doc

\* --------------------------------------------------- the decoder's actions
\* The caller receives the constructor's result r.
Constructed(r) ==
  /\ d' = r.d
  /\ dec' = r.dec
  /\ ret' = IF r.err # Nil THEN r.err ELSE ret
  /\ pc' = IF r.err # Nil THEN "returned" ELSE "new"

\* A caller of the library constructs a message decoder on the stream.
CallNewMessageDecoder ==
  /\ pc = "start"
  /\ Constructed(NewMessageDecoder(Tokens))
  /\ UNCHANGED <<batchVars, cur, trace, hret, sink>>
  /\ UNCHANGED gVars

\* A caller of the library constructs a call decoder on the stream.
CallNewCallDecoder ==
  /\ pc = "start"
  /\ Constructed(NewCallDecoder(Tokens))
  /\ UNCHANGED <<batchVars, cur, trace, hret, sink>>
  /\ UNCHANGED gVars

\* The caller sets any subset of the decoder's handlers.
SetHandlers ==
  /\ pc = "new"
  /\ \/ /\ dec.kind = "msg"
        /\ \E onS \in BOOLEAN, onM \in BOOLEAN :
             dec' = [dec EXCEPT !.OnSMS = onS, !.OnMMS = onM]
     \/ /\ dec.kind = "call"
        /\ \E c \in BOOLEAN : dec' = [dec EXCEPT !.OnCall = c]
  /\ pc' = "decode"
  /\ UNCHANGED <<batchVars, d, cur, trace, hret, ret, sink>>
  /\ UNCHANGED gVars

\* Decode is entered: it panics when no handler is set.
DecodeEnter ==
  /\ pc = "decode"
  /\ IF DecodeMustPanic(dec)
     THEN /\ ret' = Panic
          /\ pc' = "panicked"
     ELSE /\ ret' = ret
          /\ pc' = "loop"
  /\ UNCHANGED <<batchVars, d, dec, cur, trace, hret, sink>>
  /\ UNCHANGED gVars

\* The loop of Decode continues from the outcome r of an iteration.
Iterated(r) ==
  /\ d' = r.d
  /\ cur' = r.rec
  /\ ret' = IF r.out \in {"return", "panic"} THEN r.err ELSE ret
  /\ pc' = CASE r.out = "return" -> "returned"
             [] r.out = "panic" -> "panicked"
             [] r.out = "handler" -> "handler"
             [] OTHER -> "loop"

\* Decode scans for the next child and decodes or skips it.
DecodeStep ==
  /\ pc = "loop"
  /\ Iterated(DecodeIter(Tokens, d, dec))
  /\ UNCHANGED <<batchVars, dec, trace, hret, sink>>
  /\ UNCHANGED gVars

\* The tail of an iteration: Decode looks at what the handler returned.
HandlerReturns(herr) ==
  /\ trace' = Append(trace, [h |-> HandlerOf(cur.kind), id |-> cur.id, file |-> fi])
  /\ hret' = herr
  /\ ret' = IF DecodeAfterHandler(herr).out = "return" THEN DecodeAfterHandler(herr).err ELSE ret
  /\ pc' = IF DecodeAfterHandler(herr).out = "return" THEN "returned" ELSE "loop"
  /\ cur' = NoRec

\* A handler of the library's caller: it succeeds or fails as it pleases.
StubHandler ==
  /\ pc = "handler"
  /\ sink.kind = "stub"
  /\ \E fail \in BOOLEAN :
       HandlerReturns(IF fail THEN HandlerErr(cur.id) ELSE Nil)
  /\ UNCHANGED <<batchVars, d, dec, sink>>
  /\ UNCHANGED gVars

\* ------------------------------------------- the library under any caller
StubSink == [kind |-> "stub"]

InitDecode ==
  /\ file \in {[name |-> "sms", doc |-> doc] : doc \in Docs(MaxChildren)}
  /\ fi = 1
  /\ work = 0
  /\ log = <<>>
  /\ pc = "start"
  /\ d = NewDecoder
  /\ dec = NoDec
  /\ cur = NoRec
  /\ trace = <<>>
  /\ hret = Nil
  /\ ret = NotReturned
  /\ sink = StubSink
  /\ m = NoMessages
  /\ canonicalMap = NoMap

NextDecode ==
  \/ CallNewMessageDecoder
  \/ CallNewCallDecoder
  \/ SetHandlers
  \/ DecodeEnter
  \/ DecodeStep
  \/ StubHandler

SpecDecode == InitDecode /\ [][NextDecode]_vars


\* ------------------------------------------------------ the batch of a run
\* main takes the files of the command line one after the other. A run of
\* the model reads at most MaxWork units of input, a file counting for one
\* unit plus one per child of its root.
NoFile == [name |-> "", doc |-> [root |-> "none", children |-> <<>>, closed |-> TRUE]]

FileOf(name, root, children) ==
  [name |-> name, doc |-> [root |-> root, children |-> children, closed |-> TRUE]]

\* Files named sms-*.xml: a document of messages, or of calls by mistake.
MsgFiles(w) ==
  {FileOf("sms", r, c) : r \in RootNames, c \in SeqsUpTo({"sms", "mms", "bad"}, w - 1)}

\* Files named calls-*.xml.
CallFiles(w) ==
  {FileOf("calls", r, c) : r \in RootNames, c \in SeqsUpTo({"call", "bad"}, w - 1)}

\* A file whose name has neither prefix.
OtherFile == FileOf("notes", "smses", <<>>)

Cost(f) == 1 + Len(f.doc.children)

\* StreamingOutput.MessageDecoder / CallDecoder on the result r of the
\* library's constructor: the sink's handlers are set on the new decoder.
SinkDecoder(r) ==
  IF r.err # Nil THEN r
  ELSE [r EXCEPT !.dec.OnSMS = (r.dec.kind = "msg"),
                 !.dec.OnMMS = (r.dec.kind = "msg"),
                 !.dec.OnCall = (r.dec.kind = "call")]

\* main goes on to file f.
FileTaken(f) ==
  /\ file' = f
  /\ fi' = fi + 1
  /\ work' = work - Cost(f)

\* handleFile returns err to main before a decoder ran: main prints it, if
\* any, and goes on to the next file.
FileRejected(f, err) ==
  /\ file' = NoFile
  /\ fi' = fi + 1
  /\ work' = work - Cost(f)
  /\ log' = IF err # Nil THEN Append(log, [file |-> fi + 1, err |-> err]) ELSE log
  /\ pc' = "nextfile"
  /\ UNCHANGED <<d, dec, cur, trace, hret, ret, sink>>

\* handleFile got r from the sink's decoder constructor: an error is returned
\* to main; otherwise the sink's counters are read, which panics on a nil
\* sink, and Decode is called.
FileOpened(f, r) ==
  IF r.err # Nil THEN FileRejected(f, r.err)
  ELSE /\ FileTaken(f)
       /\ d' = r.d
       /\ dec' = r.dec
       /\ cur' = NoRec
       /\ hret' = Nil
       /\ ret' = IF sink.ok THEN NotReturned ELSE Panic
       /\ pc' = IF sink.ok THEN "decode" ELSE "panicked"
       /\ UNCHANGED <<log, trace, sink>>

UnexpectedNameErr == [e |-> "unexpected file name", id |-> 0]

\* The error of opening a file that os.Stat found.
OpenErr == [e |-> "open", id |-> 0]

\* The error of os.Stat on an argument, which main prints before it returns.
StatErr == [e |-> "stat", id |-> 0]

\* Decode returned to handleFile, which returns its error to main: main
\* prints it and goes on to the next file.
HandleFileReturns ==
  /\ pc = "returned"
  /\ sink.kind # "stub"
  /\ log' = IF ret # Nil THEN Append(log, [file |-> fi, err |-> ret]) ELSE log
  /\ pc' = "nextfile"
  /\ file' = NoFile
  /\ d' = NewDecoder
  /\ dec' = NoDec
  /\ cur' = NoRec
  /\ hret' = Nil
  /\ ret' = NotReturned
  /\ UNCHANGED <<fi, work, trace, sink>>
  /\ UNCHANGED gVars

\* A handler panics: the panic leaves Decode and handleFile.
HandlerPanics ==
  /\ trace' = Append(trace, [h |-> HandlerOf(cur.kind), id |-> cur.id, file |-> fi])
  /\ ret' = Panic
  /\ pc' = "panicked"
  /\ UNCHANGED <<hret, cur>>

\* -------------------------------------- the relational streaming driver
\* The sink: whether NewStreamingOutput returned one (ok), whether the
\* statement that inserts parts was prepared (part), the rows inserted in
\* the open transaction (tx), the rows committed to the store, the counters.
Row(t, f, id) == [t |-> t, file |-> f, id |-> id]

RelSink(ok, part) ==
  [kind |-> "rel", ok |-> ok, part |-> part, tx |-> <<>>, store |-> <<>>,
   smsCount |-> 0, mmsCount |-> 0]

\* NewStreamingOutput: opens the store and one transaction, and prepares the
\* insert statements; the error of the third Prepare is not looked at. When
\* it fails main prints the error and keeps the nil sink.
RelNewStreamingOutput ==
  /\ pc = "main"
  /\ \E ok \in BOOLEAN, part \in BOOLEAN :
       /\ (~ok => ~part)
       /\ sink' = RelSink(ok, part)
  /\ pc' = "nextfile"
  /\ UNCHANGED <<batchVars, d, dec, cur, trace, hret, ret>>
  /\ UNCHANGED gVars

\* Mutant of RelClose: what the transaction holds is committed.
RelClose_Commits(s) == [s EXCEPT !.store = @ \o s.tx, !.tx = <<>>]

\* StreamingOutput.Close: closes the statements, rolls back what the
\* transaction still holds and closes the store. It panics on a nil sink and
\* on the nil statement, before the rollback; the rows not committed are
\* lost then too, with the connection.
RelClosePanics(s) == ~s.ok \/ ~s.part

RelClose(s) == [s EXCEPT !.tx = <<>>]

\* StreamingOutput.Commit: the rows of the transaction become visible in
\* the store, unless the commit fails.
RelCommit(s, fails) ==
  IF fails THEN s ELSE [s EXCEPT !.store = s.store \o s.tx, !.tx = <<>>]

CommitErr == [e |-> "commit", id |-> 0]

\* os.Stat fails on the next argument, or finds a directory: main returns,
\* and the deferred Close runs.
RelStatFails ==
  /\ pc = "nextfile"
  /\ work > 0
  /\ work' = 0
  /\ log' = Append(log, [file |-> fi + 1, err |-> StatErr])
  /\ sink' = RelClose(sink)
  /\ pc' = IF RelClosePanics(sink) THEN "crashed" ELSE "exit"
  /\ UNCHANGED <<file, fi, d, dec, cur, trace, hret, ret>>
  /\ UNCHANGED gVars

\* handleFile on the next argument: the name is checked, the file opened,
\* which may fail, and, for messages, a decoder made on it; call logs are not
\* handled.
RelHandleFile ==
  /\ pc = "nextfile"
  /\ work > 0
  /\ \/ FileRejected(OtherFile, UnexpectedNameErr)
     \/ \E f \in MsgFiles(1) \cup CallFiles(1) : FileRejected(f, OpenErr)
     \/ \E f \in CallFiles(1) : FileRejected(f, Nil)
     \/ \E f \in MsgFiles(work) :
          FileOpened(f, SinkDecoder(NewMessageDecoder(Serialize(f.doc))))
  /\ UNCHANGED gVars

\* onSms: counts the record and inserts its row, which may fail.
RelOnSms ==
  /\ pc = "handler"
  /\ sink.kind = "rel"
  /\ cur.kind = "sms"
  /\ \E fails \in BOOLEAN :
       /\ sink' = [sink EXCEPT !.smsCount = @ + 1,
                     !.tx = IF fails THEN @ ELSE Append(@, Row("sms", fi, cur.id))]
       /\ HandlerReturns(IF fails THEN HandlerErr(cur.id) ELSE Nil)
  /\ UNCHANGED <<batchVars, d, dec>>
  /\ UNCHANGED gVars

PartRows(f, id, n) == [i \in 1..n |-> Row("part", f, id)]

\* onMMS: counts the record, inserts its row and then one row per part; each
\* insert may fail (or the part's data not decode), and what was inserted
\* before stays in the transaction.
\* k is the insert that fails: 0 the record's, i that of part i, none when k
\* exceeds the number of parts. Inserting a part through the nil statement
\* panics.
RelOnMMS ==
  /\ pc = "handler"
  /\ sink.kind = "rel"
  /\ cur.kind = "mms"
  /\ \E k \in 0..(cur.parts + 1) :
       IF k = 0
       THEN /\ sink' = [sink EXCEPT !.mmsCount = @ + 1]
            /\ HandlerReturns(HandlerErr(cur.id))
       ELSE IF ~sink.part /\ cur.parts > 0
       THEN /\ sink' = [sink EXCEPT !.mmsCount = @ + 1,
                          !.tx = Append(@, Row("mms", fi, cur.id))]
            /\ HandlerPanics
       ELSE /\ sink' = [sink EXCEPT !.mmsCount = @ + 1,
                          !.tx = Append(@, Row("mms", fi, cur.id))
                                   \o PartRows(fi, cur.id, IF k > cur.parts THEN cur.parts ELSE k - 1)]
            /\ HandlerReturns(IF k > cur.parts THEN Nil ELSE HandlerErr(cur.id))
  /\ UNCHANGED <<batchVars, d, dec>>
  /\ UNCHANGED gVars

\* The arguments are used up: main commits the transaction, whatever
\* handleFile returned for the files, prints the counters and returns; the
\* deferred Close runs. Commit panics on a nil sink.
RelMainEnds ==
  /\ pc = "nextfile"
  /\ \E fails \in BOOLEAN :
       IF ~sink.ok
       THEN /\ sink' = sink
            /\ log' = log
            /\ pc' = "crashed"
       ELSE /\ sink' = RelClose(RelCommit(sink, fails))
            /\ log' = IF fails THEN Append(log, [file |-> 0, err |-> CommitErr]) ELSE log
            /\ pc' = IF RelClosePanics(sink) THEN "crashed" ELSE "exit"
  /\ work' = 0
  /\ UNCHANGED <<file, fi, d, dec, cur, trace, hret, ret>>
  /\ UNCHANGED gVars

\* A panic unwinds main: the deferred Close runs and the process dies.
RelUnwind ==
  /\ pc = "panicked"
  /\ sink.kind = "rel"
  /\ sink' = RelClose(sink)
  /\ pc' = "crashed"
  /\ UNCHANGED <<batchVars, d, dec, cur, trace, hret, ret>>
  /\ UNCHANGED gVars

InitRel ==
  /\ file = NoFile
  /\ fi = 0
  /\ work = MaxWork
  /\ log = <<>>
  /\ pc = "main"
  /\ d = NewDecoder
  /\ dec = NoDec
  /\ cur = NoRec
  /\ trace = <<>>
  /\ hret = Nil
  /\ ret = NotReturned
  /\ sink = RelSink(FALSE, FALSE)
  /\ m = NoMessages
  /\ canonicalMap = NoMap

NextRel ==
  \/ RelNewStreamingOutput
  \/ RelStatFails
  \/ RelHandleFile
  \/ DecodeEnter
  \/ DecodeStep
  \/ RelOnSms
  \/ RelOnMMS
  \/ HandleFileReturns
  \/ RelMainEnds
  \/ RelUnwind

SpecRel == InitRel /\ [][NextRel]_vars

\* --------------------------------------- the flat-file streaming driver
\* An output file behind its bufio.Writer, in bytes: every line of the file,
\* header or row, is LineLen bytes long and the buffer holds BufSize bytes.
\*   idx     the index the next row gets (rows handed to Write)
\*   rows    the rows whose Write returned nil
\*   ix      the index written in each of these rows, in the order written
\*   hdr     how many header lines were written, and hdrFirst whether no
\*           row was written before one of them
\*   buf     the bytes in the buffer
\*   disk    the bytes in the file; they are the first ones of the header
\*           and the rows, in the order written
\*   err     the sticky error of the bufio.Writer
\*   closed  the file handle is closed
NewOut ==
  [idx |-> 0, rows |-> 0, ix |-> <<>>, hdr |-> 0, hdrFirst |-> TRUE,
   buf |-> 0, disk |-> 0, err |-> FALSE, closed |-> FALSE]

\* os.File.Write of n bytes when the file takes q more bytes (the disk is
\* full after them): how many bytes get written. A closed file takes none.
Accepted(o, n, q) == IF o.closed THEN 0 ELSE IF n <= q THEN n ELSE q

\* bufio.Writer.Flush: nothing on a writer in error or an empty buffer;
\* otherwise the buffer is written to the file, and a short write keeps the
\* rest in the buffer and sets the error.
BufFlush(o, q) ==
  IF o.err \/ o.buf = 0 THEN o
  ELSE [o EXCEPT !.disk = @ + Accepted(o, o.buf, q),
                 !.buf = @ - Accepted(o, o.buf, q),
                 !.err = Accepted(o, o.buf, q) < o.buf]

\* bufio.Writer.Write of n bytes: while they do not fit in what is left of
\* the buffer, an empty buffer is bypassed by a direct write to the file and
\* any other is filled up and flushed; what is left is buffered.
RECURSIVE BufWrite(_, _, _)
BufWrite(o, n, q) ==
  IF o.err THEN o
  ELSE IF n <= BufSize - o.buf THEN [o EXCEPT !.buf = @ + n]
  ELSE IF o.buf = 0
  THEN BufWrite([o EXCEPT !.disk = @ + Accepted(o, n, q), !.err = Accepted(o, n, q) < n],
                n - Accepted(o, n, q), q - Accepted(o, n, q))
  ELSE BufWrite(BufFlush([o EXCEPT !.buf = BufSize], q),
                n - (BufSize - o.buf), q - Accepted(o, BufSize, q))

\* The header line was written to o: w is the result of the write.
HeaderWritten(o, w) ==
  [w EXCEPT !.hdr = IF w.err THEN @ ELSE @ + 1,
            !.hdrFirst = @ /\ (w.err \/ o.idx = 0)]

\* NewSMSOutput: the header line is written.
NewSMSOutput(q) == HeaderWritten(NewOut, BufWrite(NewOut, LineLen, q))

\* Mutant of Written: the index is not advanced.
Written_NoAdvance(w) ==
  [w EXCEPT !.rows = IF w.err THEN @ ELSE @ + 1,
            !.ix = IF w.err THEN @ ELSE Append(@, w.idx)]

\* Mutant of Written: every row is written with a header line of its own.
Written_HeaderAgain(w) ==
  [w EXCEPT !.idx = @ + 1,
            !.rows = IF w.err THEN @ ELSE @ + 1,
            !.ix = IF w.err THEN @ ELSE Append(@, w.idx),
            !.hdr = IF w.err THEN @ ELSE @ + 1,
            !.hdrFirst = w.err]

\* SMSOutput.Write on the result w of writing the row's line, which starts
\* with the index: the index is advanced whether the write failed or not.
Written(w) ==
  [w EXCEPT !.idx = @ + 1,
            !.rows = IF w.err THEN @ ELSE @ + 1,
            !.ix = IF w.err THEN @ ELSE Append(@, w.idx)]

SMSOutputWrite(o, q) == Written(BufWrite(o, LineLen, q))

\* NewMMSOutput and MMSOutput.Write: header at construction, one row per
\* record.
NewMMSOutput(q) == HeaderWritten(NewOut, BufWrite(NewOut, LineLen, q))

MMSOutputWrite(o, q) == Written(BufWrite(o, LineLen, q))

\* What a write to a file may be cut down to: from nothing to all of it.
Quotas == 0..(LineLen + BufSize)

FlatSink(ok, mms, sms) ==
  [kind |-> "flat", ok |-> ok, mms |-> mms, sms |-> sms,
   smsCount |-> 0, mmsCount |-> 0, callCount |-> 0]

\* NewStreamingOutput on the two outputs made: a failed header write makes
\* it return no sink, as do a failing MkdirAll or Create.
FlatMade(created, mms, sms) ==
  FlatSink(created /\ ~mms.err /\ ~sms.err, mms, sms)

\* NewStreamingOutput: creates mms.tsv and sms.tsv, each behind a buffered
\* writer, and writes their headers. When it fails main prints the error and
\* keeps the nil sink.
FlatNewStreamingOutput ==
  /\ pc = "main"
  /\ \E created \in BOOLEAN, q \in Quotas :
       sink' = IF created THEN FlatMade(TRUE, NewMMSOutput(q), NewSMSOutput(q))
               ELSE FlatMade(FALSE, NewOut, NewOut)
  /\ pc' = "nextfile"
  /\ UNCHANGED <<batchVars, d, dec, cur, trace, hret, ret>>
  /\ UNCHANGED gVars

\* One pair of the sink's closeFuncs, in the order they were appended: the
\* file's Close, then the Flush of its buffered writer.
CloseThenFlush(o) == BufFlush([o EXCEPT !.closed = TRUE], LineLen + BufSize)

\* StreamingOutput.Close: runs the closeFuncs in order, for mms.tsv and then
\* sms.tsv. It panics on a nil sink.
FlatClose(s) ==
  IF ~s.ok THEN s
  ELSE [s EXCEPT !.mms = CloseThenFlush(s.mms), !.sms = CloseThenFlush(s.sms)]

\* os.Stat fails on the next argument, or finds a directory: main returns,
\* and the deferred Close runs.
FlatStatFails ==
  /\ pc = "nextfile"
  /\ work > 0
  /\ work' = 0
  /\ log' = Append(log, [file |-> fi + 1, err |-> StatErr])
  /\ sink' = FlatClose(sink)
  /\ pc' = IF sink.ok THEN "exit" ELSE "crashed"
  /\ UNCHANGED <<file, fi, d, dec, cur, trace, hret, ret>>
  /\ UNCHANGED gVars

\* handleFile on the next argument: the name is checked, the file opened,
\* which may fail, and a decoder of the file's kind made on it.
FlatHandleFile ==
  /\ pc = "nextfile"
  /\ work > 0
  /\ \/ FileRejected(OtherFile, UnexpectedNameErr)
     \/ \E f \in MsgFiles(1) \cup CallFiles(1) : FileRejected(f, OpenErr)
     \/ \E f \in MsgFiles(work) :
          FileOpened(f, SinkDecoder(NewMessageDecoder(Serialize(f.doc))))
     \/ \E f \in CallFiles(work) :
          FileOpened(f, SinkDecoder(NewCallDecoder(Serialize(f.doc))))
  /\ UNCHANGED gVars

\* A sink's Write returned: its error, if any, is the handler's.
WriteErr(o, id) == IF o.err THEN HandlerErr(id) ELSE Nil

\* onSms: counts the record and writes its row to sms.tsv.
FlatOnSms ==
  /\ pc = "handler"
  /\ sink.kind = "flat"
  /\ cur.kind = "sms"
  /\ \E q \in Quotas :
       /\ sink' = [sink EXCEPT !.smsCount = @ + 1, !.sms = SMSOutputWrite(@, q)]
       /\ HandlerReturns(WriteErr(SMSOutputWrite(sink.sms, q), cur.id))
  /\ UNCHANGED <<batchVars, d, dec>>
  /\ UNCHANGED gVars

\* onMms: counts the record and writes its row to mms.tsv.
FlatOnMms ==
  /\ pc = "handler"
  /\ sink.kind = "flat"
  /\ cur.kind = "mms"
  /\ \E q \in Quotas :
       /\ sink' = [sink EXCEPT !.mmsCount = @ + 1, !.mms = MMSOutputWrite(@, q)]
       /\ HandlerReturns(WriteErr(MMSOutputWrite(sink.mms, q), cur.id))
  /\ UNCHANGED <<batchVars, d, dec>>
  /\ UNCHANGED gVars

\* onCall: counts the record and writes it to callsOut, which
\* NewStreamingOutput never sets: the call through the nil pointer panics.
FlatOnCall ==
  /\ pc = "handler"
  /\ sink.kind = "flat"
  /\ cur.kind = "call"
  /\ sink' = [sink EXCEPT !.callCount = @ + 1]
  /\ HandlerPanics
  /\ UNCHANGED <<batchVars, d, dec>>
  /\ UNCHANGED gVars

\* The arguments are used up: main prints the counters, which panics on a
\* nil sink, and returns; the deferred Close runs.
FlatMainEnds ==
  /\ pc = "nextfile"
  /\ sink' = FlatClose(sink)
  /\ pc' = IF sink.ok THEN "exit" ELSE "crashed"
  /\ work' = 0
  /\ UNCHANGED <<file, fi, log, d, dec, cur, trace, hret, ret>>
  /\ UNCHANGED gVars

\* A panic unwinds main: the deferred Close runs and the process dies.
FlatUnwind ==
  /\ pc = "panicked"
  /\ sink.kind = "flat"
  /\ sink' = FlatClose(sink)
  /\ pc' = "crashed"
  /\ UNCHANGED <<batchVars, d, dec, cur, trace, hret, ret>>
  /\ UNCHANGED gVars

InitFlat ==
  /\ file = NoFile
  /\ fi = 0
  /\ work = MaxWork
  /\ log = <<>>
  /\ pc = "main"
  /\ d = NewDecoder
  /\ dec = NoDec
  /\ cur = NoRec
  /\ trace = <<>>
  /\ hret = Nil
  /\ ret = NotReturned
  /\ sink = FlatMade(FALSE, NewOut, NewOut)
  /\ m = NoMessages
  /\ canonicalMap = NoMap

NextFlat ==
  \/ FlatNewStreamingOutput
  \/ FlatStatFails
  \/ FlatHandleFile
  \/ DecodeEnter
  \/ DecodeStep
  \/ FlatOnSms
  \/ FlatOnMms
  \/ FlatOnCall
  \/ HandleFileReturns
  \/ FlatMainEnds
  \/ FlatUnwind

SpecFlat == InitFlat /\ [][NextFlat]_vars

\* ------------------------------- the aggregate driver (cmd/sbrparser)
\* findElem of cmd/sbrparser/main.go: the next start element whose name is in
\* `names`; a start element of another name is passed over, not skipped, so
\* that the scan goes on inside it. cmdFindElemOn continues the loop on the
\* result r of the Token call just made.
RECURSIVE cmdFindElemOn(_, _, _)
cmdFindElemOn(ts, names, r) ==
  IF r.err # "nil" THEN [d |-> r.d, se |-> NoTok, err |-> r.err]
  ELSE IF r.tok.t = "start" /\ r.tok.name \in names
  THEN [d |-> r.d, se |-> r.tok, err |-> "nil"]
  ELSE cmdFindElemOn(ts, names, Token(ts, r.d))

cmdFindElem(ts, dd, names) == cmdFindElemOn(ts, names, Token(ts, dd))

\* The Messages object handleFile collects a file into (the identities of
\* its SMS and MMS records, in the order appended) and the rows generated
\* from it into sms.tsv and mms.tsv once the file is read.
CmdSink == [kind |-> "agg", SMS |-> <<>>, MMS |-> <<>>, smsTsv |-> <<>>, mmsTsv |-> <<>>]

\* handleFile looks for the root of a file named sms-*.xml.
CmdFindRoot ==
  /\ pc = "start"
  /\ sink.kind = "agg"
  /\ Constructed(NewDecoderOn(cmdFindElem(Tokens, NewDecoder, {"smses"}), MessageDecoder))
  /\ UNCHANGED <<batchVars, cur, trace, hret, sink>>
  /\ UNCHANGED gVars

\* The loop of handleFile on the result e of DecodeElement: the record is
\* appended to the list of its kind.
CmdDecoded(e) ==
  /\ d' = e.d
  /\ IF e.err # "nil"
     THEN /\ ret' = SyntaxErr
          /\ pc' = "returned"
          /\ sink' = sink
     ELSE /\ ret' = ret
          /\ pc' = "new"
          /\ sink' = IF e.rec.kind = "sms"
                     THEN [sink EXCEPT !.SMS = Append(@, e.rec.id)]
                     ELSE [sink EXCEPT !.MMS = Append(@, e.rec.id)]

\* The loop of handleFile on the result r of findElem(decoder, "sms", "mms"):
\* io.EOF ends the loop and the outputs are generated from what was
\* collected; another error is returned.
CmdChild(ts, r) ==
  IF r.err = "EOF"
  THEN /\ d' = r.d
       /\ ret' = Nil
       /\ pc' = "returned"
       /\ sink' = [sink EXCEPT !.smsTsv = sink.SMS, !.mmsTsv = sink.MMS]
  ELSE IF r.err # "nil"
  THEN /\ d' = r.d
       /\ ret' = SyntaxErr
       /\ pc' = "returned"
       /\ sink' = sink
  ELSE CmdDecoded(DecodeElement(ts, r.d, r.se))

\* One iteration of the loop of handleFile.
CmdStep ==
  /\ pc = "new"
  /\ sink.kind = "agg"
  /\ CmdChild(Tokens, cmdFindElem(Tokens, d, {"sms", "mms"}))
  /\ UNCHANGED <<batchVars, dec, cur, trace, hret>>
  /\ UNCHANGED gVars

InitCmd ==
  /\ file \in {[name |-> "sms", doc |-> doc] : doc \in Docs(MaxChildren)}
  /\ fi = 1
  /\ work = 0
  /\ log = <<>>
  /\ pc = "start"
  /\ d = NewDecoder
  /\ dec = NoDec
  /\ cur = NoRec
  /\ trace = <<>>
  /\ hret = Nil
  /\ ret = NotReturned
  /\ sink = CmdSink
  /\ m = NoMessages
  /\ canonicalMap = NoMap

NextCmd ==
  \/ CmdFindRoot
  \/ CmdStep

SpecCmd == InitCmd /\ [][NextCmd]_vars

\* -------------------------------------------- the contact resolver
\* Strings are sequences of characters, a name standing for its characters.
\* The raw numbers, contact names and MMS fields the records are drawn from.
Unknown == <<"(Unknown)">>
Names == {Unknown, <<"Alice">>, <<"Bob">>}
RawNums == {<<"5">>, <<"+", "1", "5">>, <<"7">>}
MMSAddresses == {<<"7">>, <<"+", "1", "5", "~", "7">>}
MMSNames == {<<"Alice">>, <<"Alice", ",", " ", "Bob">>, <<"Bob", ",", " ", "Jr">>}

PartsOf(n) == [i \in 1..n |-> [Text |-> <<"text">>]]

SMSRecords == [Address : RawNums, ContactName : Names]
MMSRecords ==
  [Address : MMSAddresses, ContactName : MMSNames, Parts : {PartsOf(n) : n \in 0..MaxParts}]

\* NormalizePhoneNumber: what is not a digit is dropped, and so is the
\* country code in front of a national number.
Digits == {"1", "5", "7"}
CountryCode == "1"
NationalLen == 1

StripNonDigits(s) == SelectSeq(s, LAMBDA c : c \in Digits)

StripCountryCode(s) ==
  IF Len(s) > NationalLen /\ Head(s) = CountryCode THEN Tail(s) ELSE s

NormalizePhoneNumber(raw) == StripCountryCode(StripNonDigits(raw))

\* strings.Split: the pieces of s between the separators, at least one.
\* SplitOn continues with the piece begun and the rest of the string.
RECURSIVE SplitOn(_, _, _)
SplitOn(piece, rest, sep) ==
  IF rest = <<>> THEN <<piece>>
  ELSE IF Head(rest) = sep THEN <<piece>> \o SplitOn(<<>>, Tail(rest), sep)
  ELSE SplitOn(Append(piece, Head(rest)), Tail(rest), sep)

Split(s, sep) == SplitOn(<<>>, s, sep)

\* strings.TrimSpace.
RECURSIVE TrimLeft(_)
TrimLeft(s) == IF s # <<>> /\ Head(s) = " " THEN TrimLeft(Tail(s)) ELSE s

RECURSIVE TrimRight(_)
TrimRight(s) ==
  IF s # <<>> /\ s[Len(s)] = " " THEN TrimRight(SubSeq(s, 1, Len(s) - 1)) ELSE s

TrimSpace(s) == TrimRight(TrimLeft(s))

\* RemoveCommasBeforeSuffixes: a comma in front of a name suffix is dropped.
Suffixes == {"Jr"}

RECURSIVE RemoveCommasBeforeSuffixes(_)
RemoveCommasBeforeSuffixes(s) ==
  IF s = <<>> THEN <<>>
  ELSE IF Len(s) >= 3 /\ s[1] = "," /\ s[2] = " " /\ s[3] \in Suffixes
  THEN RemoveCommasBeforeSuffixes(Tail(s))
  ELSE <<Head(s)>> \o RemoveCommasBeforeSuffixes(Tail(s))

\* Contact.addRawNum: the raw number is recorded unless it already is.
addRawNum(c, rawNum) ==
  IF \E i \in 1..Len(c.RawNumbers) : c.RawNumbers[i] = rawNum THEN c
  ELSE [c EXCEPT !.RawNumbers = Append(@, rawNum)]

\* Mutant of NameAfter: the name seen last is kept.
NameAfter_LastWins(old, new) == new

\* GuessContacts, the name of a Contact named `old` after a record named
\* `new`: the new name is taken only in place of the sentinel.
NameAfter(old, new) ==
  IF old # new
  THEN IF old = Unknown THEN new
       ELSE old
  ELSE old

\* GuessContacts logs a warning when the names differ and neither is the
\* sentinel.
NameConflict(old, new) == old # new /\ old # Unknown /\ new # Unknown

NameWarning(num, old, new) ==
  [warn |-> "multiple names", num |-> num, old |-> old, new |-> new]

\* Mutant of GuessSMSInto: the raw number of a record whose name conflicts
\* with the Contact's is not recorded.
GuessSMSInto_SkipOnConflict(map, rawNum, canonicalNum, name) ==
  IF canonicalNum \in DOMAIN map
  THEN IF NameConflict(map[canonicalNum].Name, name) THEN map
       ELSE [map EXCEPT ![canonicalNum] =
               addRawNum([@ EXCEPT !.Name = NameAfter(@, name)], rawNum)]
  ELSE (canonicalNum :> [Name |-> name, CanonicalNumber |-> canonicalNum,
                         RawNumbers |-> <<rawNum>>]) @@ map

\* Mutant of GuessSMSInto: a number is looked up by its raw form.
GuessSMSInto_RawKey(map, rawNum, canonicalNum, name) ==
  IF rawNum \in DOMAIN map
  THEN [map EXCEPT ![rawNum] = addRawNum([@ EXCEPT !.Name = NameAfter(@, name)], rawNum)]
  ELSE (rawNum :> [Name |-> name, CanonicalNumber |-> canonicalNum,
                   RawNumbers |-> <<rawNum>>]) @@ map

\* GuessContacts, one turn of the loop over m.SMS: the Contact of the
\* canonical number is updated, or made.
GuessSMSInto(map, rawNum, canonicalNum, name) ==
  IF canonicalNum \in DOMAIN map
  THEN [map EXCEPT ![canonicalNum] =
          addRawNum([@ EXCEPT !.Name = NameAfter(@, name)], rawNum)]
  ELSE (canonicalNum :> [Name |-> name, CanonicalNumber |-> canonicalNum,
                         RawNumbers |-> <<rawNum>>]) @@ map

\* Mutant of GuessSMSLog: a conflict of names is not reported.
GuessSMSLog_Silent(map, canonicalNum, name) == log

GuessSMSLog(map, canonicalNum, name) ==
  IF canonicalNum \in DOMAIN map /\ NameConflict(map[canonicalNum].Name, name)
  THEN Append(log, NameWarning(canonicalNum, map[canonicalNum].Name, name))
  ELSE log

\* GuessContacts, one turn of the loop over m.MMS: the numbers and the names
\* of the record.
rawNumsList(mms) == Split(mms.Address, "~")

contactNames(mms) ==
  [i \in 1..Len(Split(RemoveCommasBeforeSuffixes(mms.ContactName), ",")) |->
     TrimSpace(Split(RemoveCommasBeforeSuffixes(mms.ContactName), ",")[i])]

LengthsDiffer(mms) == Len(rawNumsList(mms)) # Len(contactNames(mms))

LengthWarning(mms) ==
  [warn |-> "mms numbers and names", nums |-> rawNumsList(mms), names |-> contactNames(mms)]

\* Mutant of LogsPartText: the text of the second part is logged when there
\* is any part.
LogsPartText_AnyPart(mms) == Len(mms.Parts) > 0

\* The warning goes with the text of the second part when there are parts
\* enough; indexing the parts beyond their number panics.
LogsPartText(mms) == Len(mms.Parts) > 1

GuessMMSPanics(mms) == LengthsDiffer(mms) /\ LogsPartText(mms) /\ Len(mms.Parts) < 2

\* Mutant of GuessMMSInto: the first number is paired with the first name,
\* whatever the lengths.
GuessMMSInto_PairFirst(map, mms) ==
  GuessSMSInto(map, rawNumsList(mms)[1], NormalizePhoneNumber(rawNumsList(mms)[1]),
               contactNames(mms)[1])

\* What the turn does to the map: nothing, whether the lengths differ (the
\* record is skipped) or not (the loop body ends there).
GuessMMSInto(map, mms) == map

\* GuessContacts ranges over the next SMS of m.
GuessSMS ==
  /\ pc = "sms"
  /\ Len(m.SMS) < MaxSMS
  /\ \E sms \in SMSRecords :
       /\ m' = [m EXCEPT !.SMS = Append(@, sms)]
       /\ canonicalMap' = GuessSMSInto(canonicalMap, sms.Address,
                                       NormalizePhoneNumber(sms.Address), sms.ContactName)
       /\ log' = GuessSMSLog(canonicalMap, NormalizePhoneNumber(sms.Address), sms.ContactName)
  /\ UNCHANGED <<file, fi, work, pc, d, dec, cur, trace, hret, ret, sink>>

\* m.SMS is used up: the loop over m.MMS begins.
GuessSMSEnds ==
  /\ pc = "sms"
  /\ pc' = "mms"
  /\ UNCHANGED <<batchVars, d, dec, cur, trace, hret, ret, sink, gVars>>

\* GuessContacts ranges over the next MMS of m.
GuessMMS ==
  /\ pc = "mms"
  /\ Len(m.MMS) < MaxMMS
  /\ \E mms \in MMSRecords :
       /\ m' = [m EXCEPT !.MMS = Append(@, mms)]
       /\ canonicalMap' = GuessMMSInto(canonicalMap, mms)
       /\ log' = IF LengthsDiffer(mms) THEN Append(log, LengthWarning(mms)) ELSE log
       /\ pc' = IF GuessMMSPanics(mms) THEN "panicked" ELSE pc
       /\ ret' = IF GuessMMSPanics(mms) THEN Panic ELSE ret
  /\ UNCHANGED <<file, fi, work, d, dec, cur, trace, hret, sink>>

\* m.MMS is used up: GuessContacts returns the map and a nil error.
GuessReturns ==
  /\ pc = "mms"
  /\ pc' = "returned"
  /\ ret' = Nil
  /\ UNCHANGED <<batchVars, d, dec, cur, trace, hret, sink, gVars>>

NoSink == [kind |-> "none"]

InitGuess ==
  /\ file = NoFile
  /\ fi = 0
  /\ work = 0
  /\ log = <<>>
  /\ pc = "sms"
  /\ d = NewDecoder
  /\ dec = NoDec
  /\ cur = NoRec
  /\ trace = <<>>
  /\ hret = Nil
  /\ ret = NotReturned
  /\ sink = NoSink
  /\ m = NoMessages
  /\ canonicalMap = NoMap

NextGuess ==
  \/ GuessSMS
  \/ GuessSMSEnds
  \/ GuessMMS
  \/ GuessReturns

SpecGuess == InitGuess /\ [][NextGuess]_vars

\* ------------------------------------ the aggregate MMS output and images
\* MMSOutput of the aggregate driver writes the MMS of m to mms.tsv, one
\* row per record, and hands every image part to its withImage callback,
\* which writes the attachment to the image directory.
\* A part is an image or text; an MMS has up to MaxParts parts.
PartKinds == {"image", "text"}

ImgRecords == UNION {[1..n -> PartKinds] : n \in 0..MaxParts}

\* The attachment of part i of the k-th MMS.
ImageName(k, i) == <<k, i>>

ImgSink(ok, out) ==
  [kind |-> "img", ok |-> ok, out |-> out,
   numImagesIdentified |-> 0, numImagesSuccessfullyWritten |-> 0,
   imageOutputErrors |-> <<>>, images |-> {}]

WriteFileErr(name) == [e |-> "writefile", id |-> name[1]]

\* Mutant of WithImage: the error of os.WriteFile is returned.
WithImage_ReturnsErr(s, name, fails) ==
  [s |-> [s EXCEPT !.numImagesIdentified = @ + 1,
                   !.numImagesSuccessfullyWritten = IF fails THEN @ ELSE @ + 1,
                   !.images = IF fails THEN @ ELSE @ \cup {name}],
   err |-> IF fails THEN WriteFileErr(name) ELSE Nil]

\* The withImage callback: counts the image and writes it with
\* os.WriteFile; a failure is appended to imageOutputErrors, a success
\* counted, and nil is returned either way.
WithImage(s, name, fails) ==
  [s |-> [s EXCEPT !.numImagesIdentified = @ + 1,
                   !.imageOutputErrors = IF fails THEN Append(@, WriteFileErr(name)) ELSE @,
                   !.numImagesSuccessfullyWritten = IF fails THEN @ ELSE @ + 1,
                   !.images = IF fails THEN @ ELSE @ \cup {name}],
   err |-> Nil]

\* MMSOutput.Write, the parts of the record from the i-th on: every image
\* part is handed to WithImage, and an error returned by the callback ends
\* the Write. r is what the parts before left: the sink and no error.
RECURSIVE WriteParts(_, _, _, _, _)
WriteParts(r, k, parts, fails, i) ==
  IF i > Len(parts) \/ r.err # Nil THEN r
  ELSE WriteParts(IF parts[i] = "image" THEN WithImage(r.s, ImageName(k, i), fails[i]) ELSE r,
                  k, parts, fails, i + 1)

\* A write of n bytes to the file itself, which takes q more bytes.
FileWrite(o, n, q) ==
  [o EXCEPT !.disk = @ + Accepted(o, n, q), !.err = Accepted(o, n, q) < n]

\* MMSOutput.Write on the result r of handing over the parts: the row is
\* written unless the callback returned an error.
WriteRow(r, q) ==
  IF r.err # Nil THEN r
  ELSE [s |-> [r.s EXCEPT !.out = Written(FileWrite(@, LineLen, q))],
        err |-> IF FileWrite(r.s.out, LineLen, q).err THEN HandlerErr(r.s.out.idx) ELSE Nil]

CreateErr == [e |-> "create", id |-> 0]

\* MMSOutput creates mms.tsv and the sink on it, which writes the header;
\* when either fails the error is printed and MMSOutput returns.
ImgCreate ==
  /\ pc = "create"
  /\ \E created \in BOOLEAN, q \in {0, LineLen} :
       /\ sink' = ImgSink(created /\ q = LineLen,
                          IF created THEN HeaderWritten(NewOut, FileWrite(NewOut, LineLen, q))
                          ELSE NewOut)
       /\ log' = IF created /\ q = LineLen THEN log
                 ELSE Append(log, [file |-> 0, err |-> CreateErr])
       /\ pc' = IF created /\ q = LineLen THEN "write" ELSE "done"
  /\ UNCHANGED <<file, fi, work, d, dec, cur, trace, hret, ret, gVars>>

\* The outcome r of out.Write on the next MMS: an error is printed and
\* MMSOutput returns, otherwise the loop goes on.
ImgWritten(mms, r) ==
  /\ m' = [m EXCEPT !.MMS = Append(@, mms)]
  /\ sink' = r.s
  /\ log' = IF r.err # Nil THEN Append(log, [file |-> 0, err |-> r.err]) ELSE log
  /\ pc' = IF r.err # Nil THEN "done" ELSE pc

\* MMSOutput ranges over the next MMS of m and writes it.
ImgWrite ==
  /\ pc = "write"
  /\ Len(m.MMS) < MaxRows
  /\ \E mms \in ImgRecords : \E fails \in [DOMAIN mms -> BOOLEAN], q \in {0, LineLen} :
       /\ \A i \in DOMAIN mms : mms[i] = "text" => ~fails[i]
       /\ ImgWritten(mms, WriteRow(WriteParts([s |-> sink, err |-> Nil],
                                              Len(m.MMS) + 1, mms, fails, 1), q))
  /\ UNCHANGED <<file, fi, work, d, dec, cur, trace, hret, ret, canonicalMap>>

\* m.MMS is used up: the collected errors and the counts are printed.
ImgEnds ==
  /\ pc = "write"
  /\ pc' = "done"
  /\ UNCHANGED <<batchVars, d, dec, cur, trace, hret, ret, sink, gVars>>

InitImg ==
  /\ file = NoFile
  /\ fi = 0
  /\ work = 0
  /\ log = <<>>
  /\ pc = "create"
  /\ d = NewDecoder
  /\ dec = NoDec
  /\ cur = NoRec
  /\ trace = <<>>
  /\ hret = Nil
  /\ ret = NotReturned
  /\ sink = ImgSink(FALSE, NewOut)
  /\ m = NoMessages
  /\ canonicalMap = NoMap

NextImg ==
  \/ ImgCreate
  \/ ImgWrite
  \/ ImgEnds

SpecImg == InitImg /\ [][NextImg]_vars

\* ----------------------------------- the message decoders, both of them
\* The library holds two message decoders. The one of xml.go has handlers
\* only. The one of guessing.go keeps a Messages of its own: a record whose
\* kind has no handler of the caller is appended to it (aggregate mode).
\* A caller constructs either, sets any subset of the handlers and decodes.
AggSink == [kind |-> "aggregate"]

\* The default handlers: the record is appended to the Messages.
\* Mutant of AppendSMS: the record is put in front.
AppendSMS_InFront(msgs, rec) == [msgs EXCEPT !.SMS = <<rec.id>> \o @]

AppendSMS(msgs, rec) == [msgs EXCEPT !.SMS = Append(@, rec.id)]

AppendMMS(msgs, rec) == [msgs EXCEPT !.MMS = Append(@, rec.id)]

\* Decode of the aggregate decoder on the result r of
\* findElem(d.decoder, "sms", "mms"): an element of either kind is decoded,
\* whether the caller set a handler for it or not.
AggDecodeChild(ts, r) ==
  IF r.err # "nil" THEN DecodeNoChild(r)
  ELSE IF r.se.name = "sms" THEN DecodeDecoded(DecodeElement(ts, r.d, r.se))
  ELSE IF r.se.name = "mms" THEN DecodeDecoded(DecodeElement(ts, r.d, r.se))
  ELSE [d |-> r.d, out |-> "panic", rec |-> NoRec, err |-> Panic]

AggDecodeIter(ts, dd) == AggDecodeChild(ts, findElem(ts, dd, {"sms", "mms"}))

\* The caller sets any subset of the handlers and calls Decode.
AggSetHandlers ==
  /\ pc = "new"
  /\ \E onS \in BOOLEAN, onM \in BOOLEAN :
       dec' = [dec EXCEPT !.OnSMS = onS, !.OnMMS = onM]
  /\ pc' = IF sink.kind = "aggregate" THEN "aggloop" ELSE "decode"
  /\ UNCHANGED <<batchVars, d, cur, trace, hret, ret, sink, gVars>>

\* The loop of the aggregate Decode goes on from the outcome r of an
\* iteration.
AggIterated(r) ==
  /\ d' = r.d
  /\ cur' = r.rec
  /\ ret' = IF r.out \in {"return", "panic"} THEN r.err ELSE ret
  /\ pc' = CASE r.out = "return" -> "returned"
             [] r.out = "panic" -> "panicked"
             [] OTHER -> "agghandler"

AggDecodeStep ==
  /\ pc = "aggloop"
  /\ AggIterated(AggDecodeIter(Tokens, d))
  /\ UNCHANGED <<batchVars, dec, trace, hret, sink, gVars>>

\* The tail of an iteration of the aggregate Decode: a non-nil error of
\* onSms or onMms is returned at once.
AggHandlerReturns(herr) ==
  /\ trace' = Append(trace, [h |-> HandlerOf(cur.kind), id |-> cur.id, file |-> fi])
  /\ hret' = herr
  /\ ret' = IF herr # Nil THEN herr ELSE ret
  /\ pc' = IF herr # Nil THEN "returned" ELSE "aggloop"
  /\ cur' = NoRec

\* onSms: the caller's handler when there is one, which succeeds or fails
\* as it pleases; otherwise the record is appended to Messages.SMS.
AggOnSms ==
  /\ pc = "agghandler"
  /\ cur.kind = "sms"
  /\ IF dec.OnSMS
     THEN /\ \E fail \in BOOLEAN : AggHandlerReturns(IF fail THEN HandlerErr(cur.id) ELSE Nil)
          /\ m' = m
     ELSE /\ AggHandlerReturns(Nil)
          /\ m' = AppendSMS(m, cur)
  /\ UNCHANGED <<batchVars, d, dec, sink, canonicalMap>>

\* onMms, likewise.
AggOnMms ==
  /\ pc = "agghandler"
  /\ cur.kind = "mms"
  /\ IF dec.OnMMS
     THEN /\ \E fail \in BOOLEAN : AggHandlerReturns(IF fail THEN HandlerErr(cur.id) ELSE Nil)
          /\ m' = m
     ELSE /\ AggHandlerReturns(Nil)
          /\ m' = AppendMMS(m, cur)
  /\ UNCHANGED <<batchVars, d, dec, sink, canonicalMap>>

InitAgg ==
  /\ file \in {[name |-> "sms", doc |-> doc] : doc \in Docs(MaxChildren)}
  /\ fi = 1
  /\ work = 0
  /\ log = <<>>
  /\ pc = "start"
  /\ d = NewDecoder
  /\ dec = NoDec
  /\ cur = NoRec
  /\ trace = <<>>
  /\ hret = Nil
  /\ ret = NotReturned
  /\ sink \in {StubSink, AggSink}
  /\ m = NoMessages
  /\ canonicalMap = NoMap

NextAgg ==
  \/ CallNewMessageDecoder
  \/ AggSetHandlers
  \/ DecodeEnter
  \/ DecodeStep
  \/ StubHandler
  \/ AggDecodeStep
  \/ AggOnSms
  \/ AggOnMms

SpecAgg == InitAgg /\ [][NextAgg]_vars

\* What push mode delivers: the records handed to the handlers by the Decode
\* of xml.go with both handlers set and never failing, from scanner dd on;
\* r is the outcome of the iteration just made.
RECURSIVE PushFrom(_, _, _)
PushFrom(ts, dc, r) ==
  IF r.out = "handler" THEN <<r.rec>> \o PushFrom(ts, dc, MessageDecodeIter(ts, r.d, dc))
  ELSE IF r.out = "loop" THEN PushFrom(ts, dc, MessageDecodeIter(ts, r.d, dc))
  ELSE <<>>

BothSet == [MessageDecoder EXCEPT !.OnSMS = TRUE, !.OnMMS = TRUE]

PushDelivers(ts) ==
  PushFrom(ts, BothSet, MessageDecodeIter(ts, NewMessageDecoder(ts).d, BothSet))

\* The ids of the records of one kind among recs, in order.
IdsOfKind(recs, kind) ==
  [i \in 1..Len(SelectSeq(recs, LAMBDA c : c.kind = kind)) |->
     SelectSeq(recs, LAMBDA c : c.kind = kind)[i].id]

\* --------------------------------------------- the input of a backup file
\* handleFile of the relational driver opens the input with OpenBackup, a
\* plain file or a zip archive holding one file, and defers its Close.
\* The handles of the input: the zip archive and the reader (the file in
\* the archive, or the plain file), each not opened, open or closed.
WithHandles(f, zip) ==
  [name |-> f.name, doc |-> f.doc, zip |-> zip, archive |-> "none", reader |-> "none"]

OpenFiles ==
  {WithHandles(f, zip) : f \in MsgFiles(MaxChildren) \cup CallFiles(1) \cup {OtherFile},
                         zip \in BOOLEAN}

\* How opening may go: the archive or the file cannot be opened, the archive
\* does not hold exactly one file, the file in it cannot be opened.
OpenOutcomes(f) ==
  IF f.zip THEN {"no archive", "not one file", "no entry", "ok"} ELSE {"no file", "ok"}

\* OpenBackup: every error path closes the archive it opened.
OpenBackup(f, o) ==
  IF f.zip
  THEN CASE o = "no archive" -> [f |-> f, err |-> OpenErr]
         [] o = "not one file" -> [f |-> [f EXCEPT !.archive = "closed"], err |-> OpenErr]
         [] o = "no entry" -> [f |-> [f EXCEPT !.archive = "closed"], err |-> OpenErr]
         [] OTHER -> [f |-> [f EXCEPT !.archive = "open", !.reader = "open"], err |-> Nil]
  ELSE IF o = "no file" THEN [f |-> f, err |-> OpenErr]
       ELSE [f |-> [f EXCEPT !.reader = "open"], err |-> Nil]

\* zipCloser.Close: closes the reader of the file in the archive and, unless
\* that returned an error, the archive. Close of a plain file closes it.
InputClose(f, readerFails) ==
  IF f.reader # "open" THEN f
  ELSE IF f.zip
  THEN [f EXCEPT !.reader = "closed",
                 !.archive = IF readerFails THEN @ ELSE "closed"]
  ELSE [f EXCEPT !.reader = "closed"]

\* handleFile up to the call of Decode, on the result o of OpenBackup and r
\* of the sink's decoder constructor: the name is checked first; a calls
\* backup is opened and left alone.
OpenHandled(o, r) ==
  /\ file' = o.f
  /\ IF o.err # Nil \/ file.name = "calls"
     THEN /\ ret' = o.err
          /\ pc' = "returned"
          /\ UNCHANGED <<d, dec>>
     ELSE /\ d' = r.d
          /\ dec' = r.dec
          /\ ret' = IF r.err # Nil THEN r.err ELSE ret
          /\ pc' = IF r.err # Nil THEN "returned" ELSE "decode"

OpenHandleFile ==
  /\ pc = "open"
  /\ IF file.name = "notes"
     THEN /\ ret' = UnexpectedNameErr
          /\ pc' = "returned"
          /\ UNCHANGED <<file, d, dec>>
     ELSE \E o \in OpenOutcomes(file) :
            OpenHandled(OpenBackup(file, o), SinkDecoder(NewMessageDecoder(Tokens)))
  /\ UNCHANGED <<fi, work, log, cur, trace, hret, sink, gVars>>

\* handleFile returns, or a panic unwinds it: the deferred Close of the
\* input runs, if the input was opened; main prints the error returned.
OpenLeaves ==
  /\ pc \in {"returned", "panicked"}
  /\ \E readerFails \in BOOLEAN : file' = InputClose(file, readerFails)
  /\ log' = IF pc = "returned" /\ ret # Nil THEN Append(log, [file |-> fi, err |-> ret]) ELSE log
  /\ pc' = IF pc = "returned" THEN "left" ELSE "unwound"
  /\ UNCHANGED <<fi, work, d, dec, cur, trace, hret, ret, sink, gVars>>

InitOpen ==
  /\ file \in OpenFiles
  /\ fi = 1
  /\ work = 0
  /\ log = <<>>
  /\ pc = "open"
  /\ d = NewDecoder
  /\ dec = NoDec
  /\ cur = NoRec
  /\ trace = <<>>
  /\ hret = Nil
  /\ ret = NotReturned
  /\ sink \in {RelSink(TRUE, TRUE), RelSink(TRUE, FALSE)}
  /\ m = NoMessages
  /\ canonicalMap = NoMap

NextOpen ==
  \/ OpenHandleFile
  \/ DecodeEnter
  \/ DecodeStep
  \/ RelOnSms
  \/ RelOnMMS
  \/ OpenLeaves

SpecOpen == InitOpen /\ [][NextOpen]_vars

\* ------------------------------------------- what a document should yield
Min(S) == CHOOSE x \in S : \A y \in S : x <= y

IsPrefix(s, t) == Len(s) <= Len(t) /\ SubSeq(t, 1, Len(s)) = s

\* Whether decoder dc has a handler for children of kind k.
HasHandler(dc, k) ==
  CASE k = "sms" -> dc.kind = "msg" /\ dc.OnSMS
    [] k = "mms" -> dc.kind = "msg" /\ dc.OnMMS
    [] k = "call" -> dc.kind = "call" /\ dc.OnCall
    [] OTHER -> FALSE

\* The handler invocations the children before index n of document doc call
\* for, in document order, under decoder dc.
RECURSIVE ExpectedFrom(_, _, _, _)
ExpectedFrom(doc, dc, i, n) ==
  IF i >= n \/ i > Len(doc.children) THEN <<>>
  ELSE (IF HasHandler(dc, doc.children[i])
        THEN <<[h |-> HandlerOf(doc.children[i]), id |-> i, file |-> 1]>>
        ELSE <<>>) \o ExpectedFrom(doc, dc, i + 1, n)

Expected(doc, dc) == ExpectedFrom(doc, dc, 1, Len(doc.children) + 1)

\* Where the token stream of a document has its first syntax error: the index
\* of the child that is one (a second end tag of the root closes nothing),
\* one more than the number of children when the error is at the end of the
\* stream (a root closed twice, or never), 0 when there is none.
SyntaxErrorAt(doc) ==
  LET n == Len(doc.children)
      closes == {i \in 1..n : doc.children[i] = "close"}
      bads == {i \in 1..n : \/ doc.children[i] \in {"bad", "badsms"}
                            \/ i \in closes /\ \E j \in closes : j < i}
  IN IF bads # {} THEN Min(bads)
     ELSE IF doc.closed = (closes # {}) THEN n + 1
     ELSE 0

\* A decoder that was constructed and has none of its handlers set.
NoHandlerSet(dc) ==
  \/ dc.kind = "msg" /\ ~dc.OnSMS /\ ~dc.OnMMS
  \/ dc.kind = "call" /\ ~dc.OnCall

CountIn(seq, P(_)) == Cardinality({i \in 1..Len(seq) : P(seq[i])})

\* ------------------------------------------------------------------ claims

\* C1: with both OnSMS and OnMMS set, the handler invocations of Decode on a
\* well-formed document are, at every moment, a prefix of the sms and mms
\* children of the root in document order, and are all of them once Decode
\* has returned nil.
C1_DocumentOrder ==
  (dec.kind = "msg" /\ dec.OnSMS /\ dec.OnMMS /\ WellFormed(Doc)) =>
     /\ IsPrefix(trace, Expected(Doc, dec))
     /\ (pc = "returned" /\ ret = Nil => trace = Expected(Doc, dec))

C1_Witness ==
  /\ pc = "returned" /\ ret = Nil
  /\ dec.kind = "msg" /\ dec.OnSMS /\ dec.OnMMS
  /\ Doc.children = <<"sms", "mms", "sms">> /\ Doc.closed
  /\ trace = <<[h |-> "OnSMS", id |-> 1, file |-> 1],
               [h |-> "OnMMS", id |-> 2, file |-> 1],
               [h |-> "OnSMS", id |-> 3, file |-> 1]>>

\* C2: on a well-formed document, when no handler fails, Decode returns nil
\* and every kind that has a handler was handed to it as many times as the
\* root has children of that kind.
C2_CountsMatch ==
  (pc = "returned" /\ dec.kind # "none" /\ WellFormed(Doc) /\ hret = Nil) =>
     /\ ret = Nil
     /\ \A k \in {"sms", "mms", "call"} :
          HasHandler(dec, k) =>
            CountIn(trace, LAMBDA c : c.h = HandlerOf(k))
              = CountIn(Doc.children, LAMBDA c : c = k)

C2_Witness ==
  /\ pc = "returned" /\ ret = Nil /\ dec.kind = "call" /\ dec.OnCall
  /\ Doc.children = <<"call", "other", "call">> /\ Doc.closed
  /\ Len(trace) = 2

\* C3: once the run of the relational driver has ended, the store holds no
\* row of a file whose processing failed (main printed an error for it): the
\* rows of a file are visible only if all of its records were consumed.
C3_AllOrNothing ==
  (sink.kind = "rel" /\ pc \in {"exit", "crashed"}) =>
     \A i \in 1..Len(log) : \A j \in 1..Len(sink.store) :
        sink.store[j].file # log[i].file

\* C4: after a run of the flat-file streaming driver in which nothing failed,
\* every Write returned nil and Close has run, sms.tsv and mms.tsv hold the
\* header and every row written.
C4_FlushedBeforeClose ==
  (/\ sink.kind = "flat" /\ pc = "exit" /\ log = <<>>
   /\ sink.sms.rows = sink.sms.idx /\ sink.mms.rows = sink.mms.idx) =>
     /\ sink.sms.disk = LineLen * (1 + sink.sms.rows)
     /\ sink.mms.disk = LineLen * (1 + sink.mms.rows)

\* C5: after a run of the flat-file streaming driver in which the processing
\* of a file failed, each output file holds the header and the rows whose
\* Write returned nil, all complete, and nothing else.
C5_HeaderAndCompleteRows ==
  (/\ sink.kind = "flat" /\ sink.ok /\ pc \in {"exit", "crashed"}
   /\ (log # <<>> \/ pc = "crashed")) =>
     /\ sink.sms.disk = LineLen * (1 + sink.sms.rows)
     /\ sink.mms.disk = LineLen * (1 + sink.mms.rows)

\* C6: once a handler has returned an error, Decode has returned that very
\* error and the failed invocation is the last one there is.
C6_FailFast ==
  hret # Nil =>
     /\ pc = "returned"
     /\ ret = hret
     /\ trace # <<>> /\ trace[Len(trace)].id = hret.id

C6_Witness ==
  /\ hret = HandlerErr(1) /\ pc = "returned"
  /\ Doc.children = <<"sms", "mms">> /\ Doc.closed
  /\ dec.OnSMS /\ dec.OnMMS
  /\ Len(trace) = 1

\* C7: when the stream has a syntax error and no handler fails, Decode returns
\* a non-nil error, and the handlers were invoked for exactly the children
\* before the error, in document order.
C7_MalformedAborts ==
  (pc = "returned" /\ dec.kind # "none" /\ hret = Nil /\ SyntaxErrorAt(Doc) # 0) =>
     /\ ret = SyntaxErr
     /\ trace = ExpectedFrom(Doc, dec, 1, SyntaxErrorAt(Doc))

C7_Witness ==
  /\ pc = "returned" /\ ret = SyntaxErr
  /\ dec.kind = "msg" /\ dec.OnSMS /\ dec.OnMMS
  /\ Doc.children = <<"mms", "badsms", "sms">>
  /\ trace = <<[h |-> "OnMMS", id |-> 1, file |-> 1]>>

\* C8: a constructor never returns a decoder for a stream whose root is not
\* of its kind; it then returns its error and no decoder, which ends the run
\* without a handler invocation.
C8_NoRoot ==
  /\ dec.kind = "msg" => Doc.root = "smses"
  /\ dec.kind = "call" => Doc.root = "calls"
  /\ (pc # "start" /\ dec.kind = "none") =>
        /\ ret \in {NoSmsesErr, NoCallsErr}
        /\ ret = NoSmsesErr => Doc.root # "smses"
        /\ ret = NoCallsErr => Doc.root # "calls"
        /\ pc = "returned"
        /\ trace = <<>>

C8_Witness ==
  /\ pc = "returned" /\ ret = NoSmsesErr /\ dec = NoDec
  /\ Doc.root = "calls" /\ Doc.children = <<"call", "sms">> /\ Doc.closed

\* C9: Decode on a decoder without a handler panics at once: it consumes no
\* token, invokes no handler and never gets to its loop or to a nil return.
C9_NoHandlerPanics ==
  (pc \notin {"new", "decode"} /\ NoHandlerSet(dec)) =>
     /\ pc = "panicked"
     /\ ret = Panic
     /\ trace = <<>>
     /\ d = [pos |-> 2, stk |-> <<Doc.root>>]

C9_Witness ==
  /\ pc = "panicked" /\ dec.kind = "msg" /\ ~dec.OnSMS /\ ~dec.OnMMS
  /\ Doc.children = <<"sms", "mms">> /\ Doc.closed

\* C10: with exactly one of OnSMS and OnMMS set, Decode on a well-formed
\* document does not panic, returns nil when the handler never fails, and
\* has handed to the handler that is set all the children of its kind, in
\* document order, and nothing else.
C10_OneHandler ==
  (dec.kind = "msg" /\ dec.OnSMS # dec.OnMMS /\ WellFormed(Doc)) =>
     /\ \A i \in 1..Len(trace) :
          trace[i].h = (IF dec.OnSMS THEN "OnSMS" ELSE "OnMMS")
     /\ IsPrefix(trace, Expected(Doc, dec))
     /\ pc # "panicked"
     /\ (pc = "returned" /\ hret = Nil) => (ret = Nil /\ trace = Expected(Doc, dec))

C10_Witness ==
  /\ pc = "returned" /\ ret = Nil
  /\ dec.kind = "msg" /\ dec.OnMMS /\ ~dec.OnSMS
  /\ Doc.children = <<"sms", "mms", "mms">> /\ Doc.closed
  /\ trace = <<[h |-> "OnMMS", id |-> 2, file |-> 1],
               [h |-> "OnMMS", id |-> 3, file |-> 1]>>

\* The children of kind k of a document, by their place among the children.
RECURSIVE IdsFrom(_, _, _)
IdsFrom(doc, k, i) ==
  IF i > Len(doc.children) THEN <<>>
  ELSE (IF doc.children[i] = k THEN <<i>> ELSE <<>>) \o IdsFrom(doc, k, i + 1)

\* C11: the aggregate driver collects from a well-formed file the sms and
\* mms children of the root and nothing else: an element of another name
\* is skipped with its subtree, without error and without a record.
C11_UnknownSkipped ==
  (sink.kind = "agg" /\ WellFormed(Doc) /\ Doc.root = "smses") =>
     /\ IsPrefix(sink.SMS, IdsFrom(Doc, "sms", 1))
     /\ IsPrefix(sink.MMS, IdsFrom(Doc, "mms", 1))
     /\ pc = "returned" =>
           /\ ret = Nil
           /\ sink.smsTsv = IdsFrom(Doc, "sms", 1)
           /\ sink.mmsTsv = IdsFrom(Doc, "mms", 1)

\* How many tokens of a document's stream there are up to the end tag of its
\* i-th child: the prolog, the root's start tag and the children up to the
\* i-th, without the white space after it.
EndPos(doc, i) ==
  3 + Len(ChildrenTokens(doc.root, SubSeq(doc.children, 1, i), 1)) - 1

\* C12: while a record is with its handler, the scanner has consumed the
\* stream up to the end tag of that record and not one token more, and the
\* records of the file handed over before it are earlier children.
C12_NoReadAhead ==
  pc = "handler" =>
     /\ d.pos = EndPos(Doc, cur.id)
     /\ \A i \in 1..Len(trace) : trace[i].file = fi => trace[i].id < cur.id

C12_Witness ==
  /\ pc = "handler" /\ cur.kind = "sms" /\ cur.id = 2
  /\ Doc.children = <<"mms", "sms", "sms">>
  /\ d.pos = 10
  /\ Len(trace) = 1

\* C13: in an output file of the flat-file streaming driver the k-th row,
\* counted from 0, carries the index k, and the index the next row gets is
\* the number of rows handed to Write so far, over all the files of the run.
C13_IndexIsPosition ==
  sink.kind = "flat" =>
     /\ \A k \in 1..Len(sink.sms.ix) : sink.sms.ix[k] = k - 1
     /\ Len(sink.sms.ix) = sink.sms.rows
     /\ sink.sms.idx = CountIn(trace, LAMBDA c : c.h = "OnSMS")

C13_Witness ==
  /\ sink.kind = "flat" /\ sink.sms.ix = <<0, 1>>
  /\ trace = <<[h |-> "OnSMS", id |-> 1, file |-> 1], [h |-> "OnSMS", id |-> 1, file |-> 2]>>

\* C14: a flat-file sink of the streaming driver has written its header
\* line once, before any row, however many records and files went through
\* it; the rows written are all that follows.
C14_HeaderOnce ==
  (sink.kind = "flat" /\ sink.ok) =>
     /\ sink.sms.hdr = 1 /\ sink.sms.hdrFirst
     /\ sink.mms.hdr = 1 /\ sink.mms.hdrFirst
     /\ ~sink.sms.err =>
           sink.sms.buf + sink.sms.disk = LineLen * (sink.sms.hdr + sink.sms.rows)

C14_Witness ==
  /\ sink.kind = "flat" /\ sink.ok /\ fi = 2 /\ pc = "nextfile"
  /\ sink.sms.hdr = 1 /\ sink.sms.rows = 2 /\ sink.mms.rows = 1

\* The records the resolver has ranged over.
SMSAt(i) == m.SMS[i]
CanonOf(sms) == NormalizePhoneNumber(sms.Address)

\* C15: two SMS with the same canonical number, one named "(Unknown)" and
\* the other not, yield one Contact with the other name, in either order,
\* and no warning about its names.
C15_SentinelGivesWay ==
  (/\ pc \in {"mms", "returned"} /\ Len(m.SMS) = 2
   /\ CanonOf(SMSAt(1)) = CanonOf(SMSAt(2))
   /\ \E i \in {1, 2} : /\ SMSAt(i).ContactName = Unknown
                         /\ SMSAt(3 - i).ContactName # Unknown) =>
     /\ DOMAIN canonicalMap = {CanonOf(SMSAt(1))}
     /\ \A i \in {1, 2} :
          SMSAt(i).ContactName # Unknown =>
            canonicalMap[CanonOf(SMSAt(1))].Name = SMSAt(i).ContactName
     /\ \A i \in 1..Len(log) : log[i].warn # "multiple names"

C15_Witness ==
  /\ pc = "mms"
  /\ m.SMS = <<[Address |-> <<"+", "1", "5">>, ContactName |-> <<"Alice">>],
               [Address |-> <<"5">>, ContactName |-> Unknown]>>
  /\ canonicalMap[<<"5">>].Name = <<"Alice">>
  /\ canonicalMap[<<"5">>].RawNumbers = <<<<"+", "1", "5">>, <<"5">>>>

\* C16: a Contact whose name is not the sentinel keeps it whatever record
\* comes; and when an SMS with another name, not the sentinel either, comes
\* for it, a warning that names the number and the two names is logged.
C16_FirstNameStays ==
  [][/\ \A k \in DOMAIN canonicalMap :
          canonicalMap[k].Name # Unknown =>
            k \in DOMAIN canonicalMap' /\ canonicalMap'[k].Name = canonicalMap[k].Name
     /\ (pc = "sms" /\ Len(m'.SMS) > Len(m.SMS)) =>
          \A k \in DOMAIN canonicalMap :
            (/\ k = CanonOf(m'.SMS[Len(m'.SMS)])
             /\ canonicalMap[k].Name # m'.SMS[Len(m'.SMS)].ContactName
             /\ canonicalMap[k].Name # Unknown
             /\ m'.SMS[Len(m'.SMS)].ContactName # Unknown) =>
               log' = Append(log, NameWarning(k, canonicalMap[k].Name,
                                              m'.SMS[Len(m'.SMS)].ContactName))]_vars

C16_Witness ==
  /\ pc = "returned"
  /\ m.SMS = <<[Address |-> <<"5">>, ContactName |-> <<"Alice">>],
               [Address |-> <<"+", "1", "5">>, ContactName |-> <<"Bob">>]>>
  /\ canonicalMap[<<"5">>].Name = <<"Alice">>
  /\ log = <<NameWarning(<<"5">>, <<"Alice">>, <<"Bob">>)>>

\* C17: once the resolver has ranged over an MMS with as many numbers as
\* names, every number of it has its Contact in the map, under its canonical
\* form, with the raw number recorded.
C17_MMSMerged ==
  \A j \in 1..Len(m.MMS) :
     ~LengthsDiffer(m.MMS[j]) =>
        \A i \in 1..Len(rawNumsList(m.MMS[j])) :
           /\ NormalizePhoneNumber(rawNumsList(m.MMS[j])[i]) \in DOMAIN canonicalMap
           /\ \E r \in 1..Len(canonicalMap[NormalizePhoneNumber(rawNumsList(m.MMS[j])[i])].RawNumbers) :
                canonicalMap[NormalizePhoneNumber(rawNumsList(m.MMS[j])[i])].RawNumbers[r]
                  = rawNumsList(m.MMS[j])[i]

\* C18: ranging over an MMS with more or fewer numbers than names leaves
\* the map as it was and logs a warning with the numbers and the names.
C18_UnequalSkipped ==
  [][(pc = "mms" /\ Len(m'.MMS) > Len(m.MMS) /\ LengthsDiffer(m'.MMS[Len(m'.MMS)])) =>
        /\ canonicalMap' = canonicalMap
        /\ log' = Append(log, LengthWarning(m'.MMS[Len(m'.MMS)]))]_vars

C18_Witness ==
  /\ pc = "mms" /\ Len(m.SMS) = 1 /\ Len(m.MMS) = 1
  /\ rawNumsList(m.MMS[1]) = <<<<"+", "1", "5">>, <<"7">>>>
  /\ contactNames(m.MMS[1]) = <<<<"Alice">>>>
  /\ DOMAIN canonicalMap = {CanonOf(SMSAt(1))}
  /\ log = <<LengthWarning(m.MMS[1])>>

\* C19: GuessContacts does not panic and returns nothing but a nil error.
C19_NeverFails ==
  sink.kind = "none" =>
     /\ pc # "panicked"
     /\ ret \in {NotReturned, Nil}
     /\ pc = "returned" => ret = Nil

C19_Witness ==
  /\ pc = "returned" /\ ret = Nil
  /\ Len(m.SMS) = 2 /\ Len(log) = 2
  /\ Len(m.MMS) = 1 /\ LengthsDiffer(m.MMS[1]) /\ Len(m.MMS[1].Parts) = 1

\* The output file that takes the rows of records of this kind.
OutOf(s, kind) == IF kind = "sms" THEN s.sms ELSE s.mms

\* C20: in a batch, the error of an earlier file (root not found, parse
\* error, sink error) has been printed and main has gone on to a later file:
\* that file contributes what it would alone, so every record of it that is
\* handed to the sink finds an output that still takes rows, with no error
\* left over from the earlier file.
C20_BatchGoesOn ==
  (/\ sink.kind = "flat" /\ sink.ok
   /\ pc = "handler" /\ cur.kind \in {"sms", "mms"}
   /\ \E i \in 1..Len(log) : log[i].file < fi) =>
     ~OutOf(sink, cur.kind).err

\* The image parts of the MMS the aggregate MMS output was given.
ImageParts == {n \in (1..Len(m.MMS)) \X (1..MaxParts) :
                 n[2] <= Len(m.MMS[n[1]]) /\ m.MMS[n[1]][n[2]] = "image"}

\* C21: every image part of every MMS handed to the MMS output was given to
\* the callback, whether the attachments before it could be written or not:
\* it is among the images written or its failure among the collected errors,
\* and the row of every MMS was handed to the file; no error of an
\* attachment is ever returned or printed as the error of the output.
C21_ImageErrorsCollected ==
  sink.kind = "img" =>
     /\ sink.numImagesIdentified = Cardinality(ImageParts)
     /\ \A n \in ImageParts :
          \/ n \in sink.images
          \/ \E i \in 1..Len(sink.imageOutputErrors) : sink.imageOutputErrors[i] = WriteFileErr(n)
     /\ Len(sink.imageOutputErrors) + sink.numImagesSuccessfullyWritten
          = sink.numImagesIdentified
     /\ sink.out.idx = Len(m.MMS)
     /\ \A i \in 1..Len(log) : log[i].err.e # "writefile"

C21_Witness ==
  /\ sink.kind = "img" /\ pc = "write"
  /\ Len(m.MMS) = 2 /\ m.MMS[1] = <<"image", "image">>
  /\ sink.imageOutputErrors = <<WriteFileErr(ImageName(1, 1))>>
  /\ ImageName(1, 2) \in sink.images
  /\ sink.out.rows = 2

\* C22 as stated: Decode on a message decoder whose caller set no handler
\* does not fail, and once it has returned Messages.SMS and Messages.MMS
\* are the records of their kind that push mode delivers, in that order.
C22_AggregateIsPush ==
  (dec.kind = "msg" /\ ~dec.OnSMS /\ ~dec.OnMMS /\ sink.kind \in {"stub", "aggregate"}) =>
     /\ pc # "panicked"
     /\ pc = "returned" =>
          /\ m.SMS = IdsOfKind(PushDelivers(Tokens), "sms")
          /\ m.MMS = IdsOfKind(PushDelivers(Tokens), "mms")

\* C22, amended: that holds of the decoder of guessing.go, which keeps a
\* Messages; there a kind without a handler of the caller is collected,
\* whether the other kind has one or not.
C22_AggregateDecoderIsPush ==
  (sink.kind = "aggregate" /\ dec.kind = "msg" /\ hret = Nil) =>
     /\ pc # "panicked"
     /\ pc = "returned" =>
          /\ ~dec.OnSMS => m.SMS = IdsOfKind(PushDelivers(Tokens), "sms")
          /\ ~dec.OnMMS => m.MMS = IdsOfKind(PushDelivers(Tokens), "mms")

C22_Witness ==
  /\ sink.kind = "aggregate" /\ pc = "returned" /\ ret = Nil
  /\ ~dec.OnSMS /\ ~dec.OnMMS
  /\ Doc.children = <<"sms", "mms", "sms">>
  /\ m.SMS = <<1, 3>> /\ m.MMS = <<2>>

\* C23: in the flat-file streaming driver every call handed to onCall is
\* counted and its row written through the sink's call output, and onCall
\* does not fail at run time.
C23_CallsWritten ==
  (sink.kind = "flat" /\ sink.ok) =>
     /\ sink.callCount = CountIn(trace, LAMBDA c : c.h = "OnCall")
     /\ ~(pc \in {"panicked", "crashed"} /\ cur.kind = "call")

\* C24: once handleFile has been left, by a return with or without error or
\* by a panic, nothing of the input is open any more: neither the reader
\* nor, for a zip-wrapped backup, the archive; and OpenBackup returns no
\* error while the archive it opened is open.
C24_InputReleased ==
  /\ pc \in {"left", "unwound"} => file.reader # "open" /\ file.archive # "open"
  /\ pc = "returned" /\ file.reader = "none" => file.archive # "open"

\* C25: when NewStreamingOutput failed, main goes on to no file, and
\* nothing is called on the sink that was not constructed: the run neither
\* panics nor dies.
C25_NoFileWithoutSink ==
  (sink.kind = "flat" /\ ~sink.ok /\ pc # "main") =>
     /\ fi = 0
     /\ pc \notin {"panicked", "crashed"}

\* C26: a sink that the relational NewStreamingOutput returned with a nil
\* error holds all its prepared statements, the one that inserts the parts
\* of an MMS included.
C26_StatementsPrepared ==
  (sink.kind = "rel" /\ pc # "main" /\ sink.ok) => sink.part

\* C27: when the run of the relational driver ends, Close having run, the
\* store holds every row inserted during the run if Commit was called and
\* succeeded, and none of them otherwise (no Commit, or a failed one): the
\* transaction is rolled back, and the rollback after a Commit undoes
\* nothing.
C27_CommitOrRollback ==
  [][(sink.kind = "rel" /\ sink.ok /\ pc \notin {"exit", "crashed"}
      /\ pc' \in {"exit", "crashed"}) =>
        /\ sink'.tx = <<>>
        /\ sink'.store = IF pc = "nextfile" /\ log' = log THEN sink.tx ELSE <<>>]_vars

C27_Witness ==
  /\ sink.kind = "rel" /\ pc = "exit"
  /\ log = <<[file |-> 2, err |-> StatErr]>>
  /\ sink.smsCount = 1 /\ Len(trace) = 1
  /\ sink.store = <<>> /\ sink.tx = <<>>

\* C28: no iteration of MessageDecoder.Decode ends in the branch that
\* panics on an unexpected element, whatever the stream holds: elements of
\* other names never reach Decode.
C28_NoUnexpectedElement ==
  [][(dec.kind = "msg" /\ pc = "loop") => pc' # "panicked"]_vars

C28_Witness ==
  /\ pc = "returned" /\ ret = Nil
  /\ dec.kind = "msg" /\ dec.OnSMS /\ dec.OnMMS
  /\ Doc.children = <<"other", "call", "sms">> /\ Doc.closed
  /\ trace = <<[h |-> "OnSMS", id |-> 3, file |-> 1]>>

\* C29: every entry of the map GuessContacts builds and returns is keyed by
\* the CanonicalNumber of its Contact, whose RawNumbers are not empty, hold
\* no number twice and all normalize to that key.
C29_MapWellFormed ==
  sink.kind = "none" =>
     \A k \in DOMAIN canonicalMap :
        /\ canonicalMap[k].CanonicalNumber = k
        /\ canonicalMap[k].RawNumbers # <<>>
        /\ \A i, j \in 1..Len(canonicalMap[k].RawNumbers) :
             canonicalMap[k].RawNumbers[i] = canonicalMap[k].RawNumbers[j] => i = j
        /\ \A i \in 1..Len(canonicalMap[k].RawNumbers) :
             NormalizePhoneNumber(canonicalMap[k].RawNumbers[i]) = k

C29_Witness ==
  /\ pc = "returned" /\ ret = Nil
  /\ Len(m.SMS) = 2 /\ SMSAt(1).Address = <<"+", "1", "5">> /\ SMSAt(2).Address = <<"5">>
  /\ DOMAIN canonicalMap = {<<"5">>}
  /\ canonicalMap[<<"5">>].RawNumbers = <<<<"+", "1", "5">>, <<"5">>>>

\* C30: the raw address of every SMS GuessContacts has ranged over is among
\* the RawNumbers of the Contact of its canonical number, whether the name
\* of the SMS was adopted, was the same, or conflicted with the Contact's.
C30_RawAddressRecorded ==
  sink.kind = "none" =>
     \A i \in 1..Len(m.SMS) :
        /\ CanonOf(SMSAt(i)) \in DOMAIN canonicalMap
        /\ \E j \in 1..Len(canonicalMap[CanonOf(SMSAt(i))].RawNumbers) :
             canonicalMap[CanonOf(SMSAt(i))].RawNumbers[j] = SMSAt(i).Address

C30_Witness ==
  /\ pc = "mms" /\ Len(m.SMS) = 2
  /\ SMSAt(1) = [Address |-> <<"5">>, ContactName |-> <<"Alice">>]
  /\ SMSAt(2) = [Address |-> <<"+", "1", "5">>, ContactName |-> <<"Bob">>]
  /\ log = <<NameWarning(<<"5">>, <<"Alice">>, <<"Bob">>)>>
  /\ canonicalMap[<<"5">>].Name = <<"Alice">>
  /\ canonicalMap[<<"5">>].RawNumbers = <<<<"5">>, <<"+", "1", "5">>>>

====
